---- MODULE Spec2Model ----
(***************************************************************************)
(* State-machine model of fgbuster/separation_recipes.py: the mask         *)
(* unifier, the three fit entry points (basic_comp_sep, weighted_comp_sep, *)
(* multi_res_comp_sep), the pixel-domain ILC and the harmonic ILC.         *)
(*                                                                         *)
(* Conventions of the model                                                *)
(*  - indices are 0-based, as in the source;                               *)
(*  - maps are HEALPix maps of nside 1 (12 pixels, RING order);            *)
(*  - there are two frequency channels and one component, so that the      *)
(*    inverse of the 2x2 correlation matrix has a closed form;             *)
(*  - real numbers are exact rationals <<num, den>> in lowest terms with   *)
(*    den > 0; <<0, 0>> is NaN.                                            *)
(***************************************************************************)
EXTENDS Integers, Sequences, FiniteSets, TLC

VARIABLES
    call,        \* the arguments of the entry point being run
    inputs,      \* what the caller's arrays and mapping hold now
    pc,          \* position in the entry point
    err,         \* exception that left the entry point ("none" if none)
    mask,        \* unified mask, as the entry point holds it
    solver,      \* what was handed to the external solver
    res,         \* the OptimizeResult under construction / returned
    ilc,         \* frame of the running ilc() call
    harm,        \* locals of the running harmonic_ilc() call
    log          \* messages written with logging.error

vars == <<call, inputs, pc, err, mask, solver, res, ilc, harm, log>>

(***************************************************************************)
(* Bounds of the model                                                     *)
(***************************************************************************)
\* largest number of invalid pixels in the arrays of one call
MaxBad == 2

(***************************************************************************)
(* Program constants                                                       *)
(***************************************************************************)
\* hp.UNSEEN, the sentinel (-1.6375e30 in healpy)
UNSEEN == -16375

Freqs == 0 .. 1
Comps == {0}

(***************************************************************************)
(* Exact rational arithmetic (numpy float arithmetic, idealised)           *)
(***************************************************************************)
Abs(n) == IF n < 0 THEN -n ELSE n

RECURSIVE Gcd(_, _)
Gcd(a, b) == IF b = 0 THEN a ELSE Gcd(b, a % b)

NaN == <<0, 0>>
IsNaN(r) == r[2] = 0

\* n/d in lowest terms; anything over 0 is NaN (0/0, and x/0 = inf, which
\* the code only ever propagates into NaN or inf results)
Rat(n, d) ==
    IF d = 0 THEN NaN
    ELSE LET g == Gcd(Abs(n), Abs(d))
             sg == IF d < 0 THEN -1 ELSE 1
         IN  <<sg * (n \div g), sg * (d \div g)>>

RInt(n) == <<n, 1>>

RAdd(a, b) ==
    IF IsNaN(a) \/ IsNaN(b) THEN NaN
    ELSE LET g == Gcd(a[2], b[2])
             l == (a[2] \div g) * b[2]
         IN  Rat(a[1] * (l \div a[2]) + b[1] * (l \div b[2]), l)

RMul(a, b) ==
    IF IsNaN(a) \/ IsNaN(b) THEN NaN
    ELSE LET x == Rat(a[1], b[2])
             y == Rat(b[1], a[2])
         IN  Rat(x[1] * y[1], x[2] * y[2])

RDiv(a, b) ==
    IF IsNaN(a) \/ IsNaN(b) \/ b[1] = 0 THEN NaN
    ELSE RMul(a, Rat(b[2], b[1]))

\* the sentinel as an array element
Sentinel == RInt(UNSEEN)

RECURSIVE SumOver(_, _)
\* sum of the integers f[x], x in S
SumOver(S, f) ==
    IF S = {} THEN 0
    ELSE LET x == CHOOSE y \in S : TRUE
         IN  f[x] + SumOver(S \ {x}, f)

RECURSIVE SetMax(_)
SetMax(S) == LET x == CHOOSE y \in S : TRUE
             IN  IF S = {x} THEN x
                 ELSE LET m == SetMax(S \ {x}) IN IF x > m THEN x ELSE m

RECURSIVE RSumOver(_, _)
\* sum of the rationals f[x], x in S
RSumOver(S, f) ==
    IF S = {} THEN RInt(0)
    ELSE LET x == CHOOSE y \in S : TRUE
         IN  RAdd(f[x], RSumOver(S \ {x}, f))

(***************************************************************************)
(* Pixelisation (healpy)                                                   *)
(***************************************************************************)
\* hp.nside2npix
nside2npix(nside) == 12 * nside * nside

\* hp.get_nside(data[0]): the data maps of the model have nside 1, those of
\* the calls that fit parameters at a lower resolution have nside 2
DataNside == 1
HiNside == 2

Pix == 0 .. (nside2npix(DataNside) - 1)

\* index tuples of the leading axes of an array (n_freq, [n_stokes,] n_pix)
Stokes(ns) == 0 .. (ns - 1)
Lead(ns) == Freqs \X Stokes(ns)

\* trigger meaning "every leading element of the pixel is invalid"
AllLead == <<-1, -1>>

\* _my_nside2npix: resolution 0 is one value for the whole sky
my_nside2npix(nside) == IF nside # 0 THEN nside2npix(nside) ELSE 1

\* hp.ring2nest(2, q) \div 4 for q = 0 .. 47: the nside 1 pixel (RING and
\* NESTED numbers agree at nside 1) that contains pixel q of a RING map of
\* nside 2
Ring2Parent ==
    << 0, 1, 2, 3, 0, 0, 1, 1, 2, 2, 3, 3, 4, 0, 5, 1, 6, 2, 7, 3, 4, 5, 5, 6,
       6, 7, 7, 4, 4, 8, 5, 9, 6, 10, 7, 11, 8, 8, 9, 9, 10, 10, 11, 11, 8, 9,
       10, 11 >>

\* the pixel of resolution nside that contains pixel q of resolution dnside
ParentOf(dnside, nside, q) ==
    IF nside = 0 THEN 0
    ELSE IF nside = dnside THEN q
    ELSE Ring2Parent[q + 1]

Children(dnside, nside, P) ==
    {q \in 0 .. (nside2npix(dnside) - 1) : ParentOf(dnside, nside, q) = P}

\* number of elements of the set S of pixels that are smaller than p
Rank(S, p) == Cardinality({q \in S : q < p})

(***************************************************************************)
(* Arrays.  An array is [ma, n, v, m]: ma says whether it is a numpy       *)
(* MaskedArray, n is the length of the pixel axis, v[l][p] is the value    *)
(* at leading index l and pixel p, m[l][p] the MaskedArray flag (all       *)
(* FALSE for a plain ndarray).                                             *)
(***************************************************************************)
Pixels(maps) == 0 .. (maps.n - 1)

\* hp.pixelfunc.is_ma
is_ma(maps) == maps.ma

\* hp.pixelfunc.ma_to_array: the flagged entries are filled with UNSEEN
ma_to_array(maps) ==
    IF is_ma(maps)
    THEN [ma |-> FALSE, n |-> maps.n,
          v |-> [l \in DOMAIN maps.v |-> [p \in Pixels(maps) |->
                    IF maps.m[l][p] THEN UNSEEN ELSE maps.v[l][p]]],
          m |-> [l \in DOMAIN maps.v |-> [p \in Pixels(maps) |-> FALSE]]]
    ELSE maps

\* x itself in the place of a copy of it
AliasOf(x) == [shared |-> TRUE, val |-> x]

\* ndarray.copy(), dict(mapping): a new object that shares nothing with x
CopyOf(x) == [shared |-> FALSE, val |-> x]

\* what the object x holds after w was written into loc: w if loc is x
\* itself, what it held otherwise
AfterWrite(x, loc, w) == IF loc.shared THEN w ELSE x

\* line 229, data[..., mask] = 0
ZeroMasked(a, bad) ==
    [a EXCEPT !.v = [l \in DOMAIN a.v |-> [p \in Pixels(a) |->
                        IF bad[p] THEN 0 ELSE a.v[l][p]]]]

\* _intersect_mask with np.all in the place of np.any
IntersectMaskAll(maps) ==
    LET flag == IF is_ma(maps) THEN maps.m
                ELSE [l \in DOMAIN maps.v |->
                        [p \in Pixels(maps) |-> maps.v[l][p] = UNSEEN]]
    IN  [p \in Pixels(maps) |-> \A l \in DOMAIN flag : flag[l][p]]

\* _intersect_mask: TRUE at the bad pixels
IntersectMask(maps) ==
    LET flag == IF is_ma(maps) THEN maps.m
                ELSE [l \in DOMAIN maps.v |->
                        [p \in Pixels(maps) |-> maps.v[l][p] = UNSEEN]]
    IN  [p \in Pixels(maps) |-> \E l \in DOMAIN flag : flag[l][p]]

\* mask.astype(float)
astype_float(flags) ==
    [p \in DOMAIN flags |-> IF flags[p] THEN RInt(1) ELSE RInt(0)]

\* hp.ud_grade with the largest value of the pixels in the place of their
\* mean
ud_grade_max(m, dnside, nside) ==
    [P \in 0 .. (nside2npix(nside) - 1) |->
        IF \E q \in Children(dnside, nside, P) : m[q] = RInt(1)
        THEN RInt(1) ELSE RInt(0)]

\* hp.ud_grade(m, nside) of a map m of resolution dnside >= nside that
\* holds no UNSEEN: the mean of the values of the pixels in each pixel of
\* the output
ud_grade(m, dnside, nside) ==
    [P \in 0 .. (nside2npix(nside) - 1) |->
        LET ch == Children(dnside, nside, P)
        IN  RDiv(RSumOver(ch, [q \in ch |-> m[q]]), RInt(Cardinality(ch)))]

\* _my_ud_grade(map_in, nside_out) of a full map: for nside_out = 0 the map
\* is degraded to nside 1, its 12 values are placed in 12 of the 16 nside 4
\* pixels of the first nside 1 pixel (the others hold UNSEEN, which the
\* mean skips), and the first pixel of the map degraded to nside 1 is
\* returned
my_ud_grade(m, dnside, nside_out) ==
    IF nside_out = 0
    THEN LET m1 == ud_grade(m, dnside, 1)
         IN  [P \in {0} |-> RDiv(RSumOver(DOMAIN m1, m1),
                                 RInt(Cardinality(DOMAIN m1)))]
    ELSE ud_grade(m, dnside, nside_out)

\* lines 228-229: the caller's data once a working copy was made and its
\* masked pixels zeroed (ma_to_array of a MaskedArray is a new array)
DataAfterZeroing(data) ==
    LET loc == CopyOf(ma_to_array(data))
    IN  IF is_ma(data) THEN data
        ELSE AfterWrite(data, loc, ZeroMasked(loc.val, IntersectMask(data)))

(***************************************************************************)
(* The inputs of a call.  The arrays are described by the set of their     *)
(* invalid pixels (bad), the leading element that is invalid there (trig,  *)
(* AllLead for all of them), and the pattern of the valid values (pat).    *)
(***************************************************************************)
G0 == <<0, 1, 2, 0, 1, 0, 2, 1, 0, 0, 1, 2>>
G1 == <<1, 0, 0, 2, 1, 1, 0, 2, 0, 1, 0, 0>>

\* valid value of frequency f, Stokes index k, pixel p
BaseVal(pat, f, k, p) ==
    CASE pat = "generic"   -> IF f = 0 THEN G0[p + 1] + k ELSE G1[p + 1] + k
      [] pat = "identical" -> G0[p + 1] + k
      [] pat = "late"      -> IF f = 0 \/ p >= 4 THEN G0[p + 1] + k
                              ELSE G1[p + 1] + k
      [] pat = "sparse"    -> IF f = 0 THEN (IF p \in {1, 6} THEN 1 ELSE 0)
                              ELSE (IF p \in {3, 6, 9} THEN 1 ELSE 0)
      [] OTHER             -> 1

IsBadAt(bad, trig, l, p) == p \in bad /\ (trig = AllLead \/ trig = l)

MkArray(nside, ma, ns, bad, trig, pat) ==
    LET px == 0 .. (nside2npix(nside) - 1)
    IN  [ma |-> ma, n |-> nside2npix(nside),
         v  |-> [l \in Lead(ns) |-> [p \in px |->
                    IF ~ma /\ IsBadAt(bad, trig, l, p) THEN UNSEEN
                    ELSE BaseVal(pat, l[1], l[2], p)]],
         m  |-> [l \in Lead(ns) |-> [p \in px |->
                    ma /\ IsBadAt(bad, trig, l, p)]]]

\* the argument data
DataOf(c) == MkArray(c.dnside, c.ma, c.ns, c.bad, c.trig, c.pat)

\* the pixels of the maps of call c
PixOf(c) == 0 .. (nside2npix(c.dnside) - 1)

\* the argument cov of weighted_comp_sep, after np.broadcast_to: a pixel
\* independent covariance (shape (n_freq, ..., 1)) is repeated along the
\* pixel axis, so its invalid element is invalid at every pixel
CovOf(c) ==
    MkArray(c.dnside, c.cov_ma, c.ns,
            IF c.cov_pix1 /\ c.cov_bad # {} THEN PixOf(c) ELSE c.cov_bad,
            c.cov_trig, "flat")

BadSets == {B \in SUBSET Pix : Cardinality(B) <= MaxBad}


Shapes == {<<2, 1>>, <<3, 1>>, <<3, 2>>, <<3, 3>>}   \* <<data.ndim, n_stokes>>

\* the fields every call record has, with the values of an absent argument
BaseCall ==
    [fn |-> "", ndim |-> 2, ns |-> 1, ma |-> FALSE, bad |-> {},
     trig |-> AllLead, pat |-> "generic",
     cov_ma |-> FALSE, cov_pix1 |-> FALSE, cov_bad |-> {}, cov_trig |-> AllLead,
     nside |-> 0, nsides |-> <<>>, patch |-> "None", lbins |-> "None",
     weights |-> "None", instr |-> {"frequencies"}, instr_nfreq |-> 2,
     beams |-> "absent", n_param |-> 0, ikind |-> "dict", keys |-> {},
     dnside |-> DataNside]

(***************************************************************************)
(* Instrument and prewhitening                                             *)
(***************************************************************************)
\* instrument.<name> raises AttributeError iff the (lower-case) key is absent
HasField(instr, name) == name \in instr

NoFactors == [kind |-> "None", sens |-> {}, nside |-> 0]

\* _get_prewhiten_factors: None when the instrument lacks the sensitivity
PrewhitenFactors(instr, ndim, ns, nside) ==
    LET need == IF ndim < 3 \/ ns = 1 THEN {"sens_i"}
                ELSE IF ns = 2 THEN {"sens_p"}
                ELSE {"sens_i", "sens_p"}
    IN  IF ndim >= 3 /\ ns \notin 1 .. 3
        THEN [kind |-> "ValueError", sens |-> {}, nside |-> nside]
        ELSE IF \A f \in need : HasField(instr, f)
        THEN [kind |-> "factors", sens |-> need, nside |-> nside]
        ELSE NoFactors

(***************************************************************************)
(* The external solver (fgbuster.algebra.comp_sep / multi_comp_sep).       *)
(* Its outputs are tagged with the index they belong to.                   *)
(***************************************************************************)
NoSolver == [called |-> FALSE, fn |-> "", A_ev |-> "", ev_calls |-> 0,
             prewhitened |-> FALSE, invN |-> ""]

\* res.s of the solver: row j of the data it was given, Stokes k, component c
SolverS(j, k, c) == RInt(100 + 10 * j + 3 * k + c)

\* res.x and res.Sigma of alg.comp_sep: entry i of the vector of the fitted
\* parameters, entry (i, j) of its covariance
SolverX(i) == RInt(700 + i)
SolverSigma(i, j) == RInt(800 + 10 * i + j)

\* the fit of alg.multi_comp_sep on the patch with identifier id: its
\* parameter b, entry (i, j) of its covariance
PatchX(id, b) == RInt(1000 + 10 * id + b)
PatchSigma(id, i, j) == RInt(2000 + 100 * id + 10 * i + j)

\* _A_evaluator and the "if not len(x0): A_ev = A_ev()" that follows it
AEvKind(n_param) == IF n_param = 0 THEN "matrix" ELSE "callable"

\* the number of times the entry point itself calls A_ev: "A_ev = A_ev()"
\* runs when x0 is empty
AEvCalls(n_param) == IF n_param = 0 THEN 1 ELSE 0

NoRes == [returned |-> FALSE]

(***************************************************************************)
(* basic_comp_sep                                                          *)
(***************************************************************************)
\* the body of basic_comp_sep(components, instrument, data, nside) on the
\* arguments of call c: what it leaves in mask, solver and res
BasicCompSepRun(c, nside) ==
    LET bad == IntersectMask(DataOf(c))
        pw  == PrewhitenFactors(c.instr, c.ndim, c.ns, c.dnside)
        Params == 0 .. (c.n_param - 1)
        \* line 270
        x_mask == [P \in 0 .. (my_nside2npix(nside) - 1) |->
                     nside # 0 /\
                     ud_grade(astype_float(bad), c.dnside, nside)[P] = RInt(1)]
    IN  [mask   |-> bad,
         data   |-> DataAfterZeroing(DataOf(c)),
         solver |-> [called |-> TRUE,
                     fn |-> IF nside # 0 THEN "multi_comp_sep" ELSE "comp_sep",
                     A_ev |-> AEvKind(c.n_param),
                     ev_calls |-> AEvCalls(c.n_param),
                     prewhitened |-> (pw.kind = "factors"),
                     invN |-> "None"],
         res    |-> [returned |-> TRUE,
                     s |-> [cc \in Comps |-> [k \in Stokes(c.ns) |->
                              [p \in PixOf(c) |->
                                 IF bad[p] THEN Sentinel ELSE SolverS(p, k, cc)]]],
                     \* line 269: if nside and len(x0)
                     x_crafted |-> (nside # 0 /\ c.n_param # 0),
                     \* lines 271-274; with nside = 0 the vector and the
                     \* matrix of alg.comp_sep are returned as they are
                     x |-> IF nside # 0
                           THEN [b \in Params |-> [P \in DOMAIN x_mask |->
                                   IF x_mask[P] THEN Sentinel ELSE PatchX(P, b)]]
                           ELSE [b \in Params |-> SolverX(b)],
                     Sigma |-> IF nside # 0
                               THEN [j \in Params |-> [i \in Params |->
                                       [P \in DOMAIN x_mask |->
                                          IF x_mask[P] THEN Sentinel
                                          ELSE PatchSigma(P, i, j)]]]
                               ELSE [i \in Params |-> [j \in Params |->
                                       SolverSigma(i, j)]],
                     mask_good |-> [p \in PixOf(c) |-> ~bad[p]]]]

BasicCompSep ==
    /\ pc = "start"
    /\ call.fn = "basic_comp_sep"
    /\ LET r == BasicCompSepRun(call, call.nside)
       IN  /\ mask' = r.mask
           /\ solver' = r.solver
           /\ res' = r.res
           /\ inputs' = [inputs EXCEPT !.data = r.data]
    /\ pc' = "done"
    /\ UNCHANGED <<call, err, ilc, harm, log>>

(***************************************************************************)
(* weighted_comp_sep                                                       *)
(***************************************************************************)
\* line 103: mask = ~(_intersect_mask(data) | _intersect_mask(cov)),
\* TRUE at the good pixels
WeightedMask(c) ==
    LET d == IntersectMask(DataOf(c))
        v == IntersectMask(CovOf(c))
    IN  [p \in PixOf(c) |-> ~(d[p] \/ v[p])]

\* craft_maps(res.s): result = full(UNSEEN); result[mask] = maps; result.T
CraftMaps(good, ns) ==
    LET V == {p \in DOMAIN good : good[p]}
    IN  [cc \in Comps |-> [k \in Stokes(ns) |-> [p \in DOMAIN good |->
            IF good[p] THEN SolverS(Rank(V, p), k, cc) ELSE Sentinel]]]

\* lines 122-123: the patch identifiers of the valid pixels
WeightedPatchIds(c, good) ==
    {ParentOf(c.dnside, c.nside, q) : q \in {p \in PixOf(c) : good[p]}}

\* alg.multi_comp_sep: one fit per distinct patch identifier, the fits
\* stacked in the order of the identifiers.  Row r is the fit of the
\* identifier that r identifiers precede; keys are the parameters for
\* res.x and the pairs of parameters for res.Sigma.
MultiCompSepRows(ids, Params) ==
    [r \in 0 .. (Cardinality(ids) - 1) |->
        LET id == CHOOSE i \in ids : Rank(ids, i) = r
        IN  [x     |-> [b \in Params |-> PatchX(id, b)],
             Sigma |-> [ij \in Params \X Params |->
                          PatchSigma(id, ij[1], ij[2])]]]

\* craft_params(par_array): rows of UNSEEN appended up to nside2npix(nside)
\* rows, NaN replaced by UNSEEN, transposed (pixel axis last).  par[r][k]
\* is the entry of row r at the trailing index k \in Keys; the result is
\* keyed by the trailing index, reversed by the transposition.
craft_params(par, Keys, nside) ==
    LET n == Cardinality(DOMAIN par)
        missing_ids == nside2npix(nside) - n
    IN  [k \in Keys |-> [P \in 0 .. (n + missing_ids - 1) |->
            IF P < n
            THEN (IF IsNaN(par[P][k]) THEN Sentinel ELSE par[P][k])
            ELSE Sentinel]]

\* lines 121-125: res.x and res.Sigma of the fits of the patches
WeightedRows(c, good) ==
    MultiCompSepRows(WeightedPatchIds(c, good), 0 .. (c.n_param - 1))

WeightedCompSep ==
    /\ pc = "start"
    /\ call.fn = "weighted_comp_sep"
    /\ LET good == WeightedMask(call)
       IN  /\ mask' = good
           /\ solver' = [called |-> TRUE,
                         fn |-> IF call.nside # 0 THEN "multi_comp_sep"
                                ELSE "comp_sep",
                         A_ev |-> AEvKind(call.n_param),
                         ev_calls |-> AEvCalls(call.n_param),
                         prewhitened |-> FALSE,
                         invN |-> "array"]
           /\ res' = [returned |-> TRUE,
                      s |-> CraftMaps(good, call.ns),
                      \* lines 149-154: if len(x0): ... if nside:
                      x_crafted |-> (call.n_param # 0 /\ call.nside # 0),
                      x |-> IF call.n_param # 0 /\ call.nside # 0
                            THEN craft_params(
                                   [r \in DOMAIN WeightedRows(call, good) |->
                                      WeightedRows(call, good)[r].x],
                                   0 .. (call.n_param - 1), call.nside)
                            ELSE IF call.nside # 0
                            THEN [r \in DOMAIN WeightedRows(call, good) |->
                                    WeightedRows(call, good)[r].x]
                            ELSE [b \in 0 .. (call.n_param - 1) |-> SolverX(b)],
                      Sigma |-> IF call.n_param # 0 /\ call.nside # 0
                                THEN craft_params(
                                       [r \in DOMAIN WeightedRows(call, good) |->
                                          WeightedRows(call, good)[r].Sigma],
                                       (0 .. (call.n_param - 1))
                                           \X (0 .. (call.n_param - 1)),
                                       call.nside)
                                ELSE IF call.nside # 0
                                THEN [r \in DOMAIN WeightedRows(call, good) |->
                                        WeightedRows(call, good)[r].Sigma]
                                ELSE [ij \in (0 .. (call.n_param - 1))
                                              \X (0 .. (call.n_param - 1)) |->
                                        SolverSigma(ij[1], ij[2])],
                      mask_good |-> good]
    /\ pc' = "done"
    /\ UNCHANGED <<call, inputs, err, ilc, harm, log>>

(***************************************************************************)
(* multi_res_comp_sep                                                      *)
(***************************************************************************)
RECURSIVE SeqMax(_)
SeqMax(q) == IF Len(q) = 1 THEN q[1]
             ELSE LET m == SeqMax(Tail(q)) IN IF q[1] > m THEN q[1] ELSE m

Min(a, b) == IF a < b THEN a ELSE b

\* The argument patch_ids of multi_res_comp_sep: for every free parameter
\* the list of its clusters, a cluster being a list of pixels (here the set
\* of them).  The calls of the model pass one list per free parameter.
ClusterLayout(name) ==
    CASE name = "split"   -> << << 0 .. 3, 4 .. 7 >>, << 0 .. 11 >> >>
      [] name = "uneven"  -> << << {0}, {1}, 2 .. 11 >>, << {11}, 0 .. 10 >> >>
      [] name = "single"  -> << << 0 .. 5, 6 .. 11 >> >>
      [] name = "overlap" -> << << 0 .. 7, 4 .. 11 >>, << 0 .. 11 >> >>
      [] OTHER            -> <<>>

\* the flat index restarting at 0 for every parameter
ClusterOffsetReset(K, b) == 0

\* the value of i when the loop of array2maps reaches parameter b (counted
\* from 0): the number of clusters of the parameters before b
ClusterOffset(K, b) == SumOver(1 .. b, [j \in 1 .. b |-> Len(K[j])])

\* lines 402-415, array2maps with patch_ids: a map of zeros per parameter,
\* the pixels of cluster c painted with x[i], a later cluster painting over
\* an earlier one
array2maps_clusters(K, x, px) ==
    [b \in 0 .. (Len(K) - 1) |-> [p \in px |->
        LET cs == {c \in 1 .. Len(K[b + 1]) : p \in K[b + 1][c]}
        IN  IF cs = {} THEN RInt(0)
            ELSE x[ClusterOffset(K, b) + SetMax(cs) - 1]]]

\* the value of i when the loop of array2maps reaches parameter b
NsideOffset(nsides, b) ==
    SumOver(1 .. b, [j \in 1 .. b |-> my_nside2npix(nsides[j])])

\* lines 366-373, array2maps without patch_ids: x cut into one map per
\* parameter, of the resolution of the parameter
array2maps_nsides(nsides, x) ==
    [b \in 0 .. (Len(nsides) - 1) |->
        [P \in 0 .. (my_nside2npix(nsides[b + 1]) - 1) |->
            x[NsideOffset(nsides, b) + P]]]

\* len(x0): one entry per cluster (lines 419-423), one per pixel of the
\* resolution of each parameter (lines 388-390)
X0Len(c) ==
    IF c.patch # "None"
    THEN LET K == ClusterLayout(c.patch)
         IN  SumOver(1 .. Len(K), [b \in 1 .. Len(K) |-> Len(K[b])])
    ELSE SumOver(1 .. Len(c.nsides),
                 [b \in 1 .. Len(c.nsides) |-> my_nside2npix(c.nsides[b])])

\* lines 468-477: res.x cut into maps, the sentinel where x_mask is set
MultiResX(c, bad) ==
    LET K == ClusterLayout(c.patch)
        n == X0Len(c)
        x == [i \in 0 .. (n - 1) |-> SolverX(i)]
        maps == IF c.patch # "None"
                THEN array2maps_clusters(K, x, PixOf(c))
                ELSE array2maps_nsides(c.nsides, x)
        res_of(b) == IF c.patch # "None" THEN c.dnside ELSE c.nsides[b + 1]
    IN  [b \in DOMAIN maps |->
           LET grade == my_ud_grade(astype_float(bad), c.dnside, res_of(b))
           IN  [P \in DOMAIN maps[b] |->
                  IF grade[P] = RInt(1) THEN Sentinel ELSE maps[b][P]]]

\* the exception multi_res_comp_sep leaves with, "none" if it returns
MultiResError(c) ==
    IF c.nsides = <<>> THEN "ValueError"             \* max() of an empty sequence
    ELSE IF SeqMax(c.nsides) = 0 THEN "none"         \* delegated to basic_comp_sep
    ELSE IF PrewhitenFactors(c.instr, c.ndim, c.ns, c.dnside).kind = "None"
         THEN "TypeError"                            \* line 363: None**2
    ELSE IF c.patch = "None" /\ Min(Len(c.nsides), c.n_param) = 0
         THEN "ValueError"                           \* line 390: concatenate([])
    ELSE IF c.n_param # Len(c.nsides) THEN "AssertionError"   \* line 430
    ELSE "none"

MultiResCompSep ==
    /\ pc = "start"
    /\ call.fn = "multi_res_comp_sep"
    /\ LET e == MultiResError(call)
       IN  IF e # "none"
           THEN /\ err' = e
                /\ pc' = "raised"
                /\ mask' = IF call.nsides # <<>> THEN IntersectMask(DataOf(call))
                           ELSE mask
                /\ inputs' = IF call.nsides # <<>>
                             THEN [inputs EXCEPT
                                     !.data = DataAfterZeroing(DataOf(call))]
                             ELSE inputs
                /\ UNCHANGED <<solver, res>>
           ELSE IF SeqMax(call.nsides) = 0
           THEN LET r == BasicCompSepRun(call, 0)
                IN  /\ mask' = r.mask
                    /\ solver' = r.solver
                    /\ res' = r.res
                    /\ inputs' = [inputs EXCEPT !.data = r.data]
                    /\ pc' = "done"
                    /\ UNCHANGED err
           ELSE LET bad == IntersectMask(DataOf(call))
                IN  /\ mask' = bad
                    /\ solver' = [called |-> TRUE, fn |-> "comp_sep",
                                  A_ev |-> "callable", ev_calls |-> 0,
                                  prewhitened |-> TRUE,
                                  invN |-> "array"]
                    \* restore_index_mask_transpose: back_pix_ids undoes
                    \* the ordering pix_ids put the rows of the data in
                    /\ res' = [returned |-> TRUE,
                               s |-> [cc \in Comps |-> [k \in Stokes(call.ns) |->
                                        [p \in PixOf(call) |->
                                           IF bad[p] THEN Sentinel
                                           ELSE SolverS(p, k, cc)]]],
                               \* line 468: if len(x0)
                               x_crafted |-> TRUE,
                               x |-> MultiResX(call, bad),
                               mask_good |-> [p \in PixOf(call) |-> ~bad[p]]]
                    /\ inputs' = [inputs EXCEPT
                                    !.data = DataAfterZeroing(DataOf(call))]
                    /\ pc' = "done"
                    /\ UNCHANGED err
    /\ UNCHANGED <<call, ilc, harm, log>>

(***************************************************************************)
(* ilc                                                                     *)
(***************************************************************************)
\* value of frequency f at row p of data.T
At(d, f, p) == d.v[<<f, 0>>][p]

\* mm.eval(instrument.Frequencies): one component with unit response
MixingA == [f \in Freqs |-> 1]

\* np.cov(data_patch.reshape(-1, n_freq).T): the rows P of data.T are the
\* observations (ddof = 1, so one observation gives 0/0)
NpCov(d, P) ==
    LET N == Cardinality(P)
        Sum1(f) == SumOver(P, [p \in P |-> At(d, f, p)])
        Sum2(f, g) == SumOver(P, [p \in P |-> At(d, f, p) * At(d, g, p)])
    IN  [f \in Freqs |-> [g \in Freqs |->
            Rat(N * Sum2(f, g) - Sum1(f) * Sum1(g), N * (N - 1))]]

\* np.diag(cov)
Diag(cov) == [f \in Freqs |-> cov[f][f]]

\* correlation = cov / cov_regularizer.  Its diagonal is 1 and its
\* off-diagonal element r is kept as r^2 (r is irrational in general); it
\* is NaN when cov is, or when a variance is 0 (0/0).
Correlation(cov) ==
    LET bad == \/ \E f, g \in Freqs : IsNaN(cov[f][g])
               \/ \E f \in Freqs : cov[f][f][1] = 0
    IN  [nan |-> bad,
         r2  |-> IF bad THEN NaN
                 ELSE RDiv(RMul(cov[0][1], cov[0][1]), RMul(cov[0][0], cov[1][1]))]

\* the correlation matrix is exactly singular
Singular(corr) == ~corr.nan /\ corr.r2 = RInt(1)

\* the two channels are the same on the rows P: every element of the
\* correlation matrix is then the same float and the LU factorisation meets
\* an exact zero pivot
Identical(d, P) == \A p \in P : At(d, 0, p) = At(d, 1, p)

\* a huge, meaningless value: what an undetected singularity produces
Unreliable == <<1, 0>>

\* np.linalg.inv(correlation) / cov_regularizer: the inverse of cov.  A NaN
\* in the matrix gives NaN without an exception; a singular matrix whose
\* rounding hides the zero pivot gives unreliable values.
InvFreqCov(cov) ==
    LET corr == Correlation(cov)
        det == RAdd(RMul(cov[0][0], cov[1][1]),
                    RMul(RInt(-1), RMul(cov[0][1], cov[0][1])))
        adj == [f \in Freqs |-> [g \in Freqs |->
                   IF f = g THEN cov[1 - f][1 - f]
                   ELSE RMul(RInt(-1), cov[f][g])]]
    IN  [f \in Freqs |-> [g \in Freqs |->
            IF corr.nan THEN NaN
            ELSE IF Singular(corr) THEN Unreliable
            ELSE RDiv(adj[f][g], det)]]

\* alg.W(A, invN) = (A^T invN A)^-1 A^T invN
AlgW(A, invN) ==
    LET AtN == [f \in Freqs |->
                   RSumOver(Freqs, [g \in Freqs |-> RMul(RInt(A[g]), invN[g][f])])]
        AtNA == RSumOver(Freqs, [f \in Freqs |-> RMul(AtN[f], RInt(A[f]))])
    IN  [c \in Comps |-> [f \in Freqs |-> RDiv(AtN[f], AtNA)]]

\* alg._mv(W, data_patch) at row p
AlgMv(W, d, p) ==
    [c \in Comps |->
        RSumOver(Freqs, [f \in Freqs |-> RMul(W[c][f], RInt(At(d, f, p)))])]

NoIlc == [active |-> FALSE]

\* the arguments ilc() is entered with: those of the call, or those
\* _harmonic_ilc_alm passes
PatchLayout(name) ==
    CASE name = "rings"  -> [p \in Pix |-> p \div 4]
      [] name = "halves" -> [p \in Pix |-> p \div 6]
      [] name = "first"  -> [p \in Pix |-> IF p = 0 THEN 0 ELSE 1]
      [] name = "gap"    -> [p \in Pix |-> IF p < 6 THEN 0 ELSE 2]
      [] OTHER           -> <<>>

IlcArgs ==
    IF pc = "start"
    THEN [data |-> DataOf(call), given |-> (call.patch # "None"),
          patch_ids |-> PatchLayout(call.patch), ret |-> "ilc"]
    ELSE [data |-> harm.alms_real, given |-> TRUE,
          patch_ids |-> harm.ell, ret |-> "harmonic"]

SentinelMatrix(rows, cols) == [r \in rows |-> [c \in cols |-> Sentinel]]

\* lines 679-695 and 722-731: the checks, the mask, the mixing matrix and
\* the outputs filled with the sentinel
IlcEnter ==
    /\ \/ pc = "start" /\ call.fn = "ilc"
       \/ pc = "h_ilc"
    /\ LET a == IlcArgs
           good == [p \in Pixels(a.data) |-> ~IntersectMask(a.data)[p]]
           n_id == IF a.given
                   THEN SetMax({a.patch_ids[p] : p \in Pixels(a.data)}) + 1
                   ELSE 1
       IN  IF call.instr_nfreq # Cardinality(Freqs)
           THEN /\ err' = "AssertionError"
                /\ pc' = "raised"
                /\ UNCHANGED <<mask, res, ilc>>
           ELSE /\ mask' = good
                /\ res' = [returned |-> FALSE,
                           s |-> [c \in Comps |-> [k \in {0} |->
                                    [p \in Pixels(a.data) |-> Sentinel]]],
                           freq_cov |-> [i \in 0 .. (n_id - 1) |->
                                           SentinelMatrix(Freqs, Freqs)],
                           W |-> [i \in 0 .. (n_id - 1) |->
                                    SentinelMatrix(Comps, Freqs)]]
                /\ ilc' = [active |-> TRUE, data |-> a.data,
                           good |-> good, given |-> a.given, n_id |-> n_id,
                           \* patch_ids_bak: -1 at the masked pixels
                           bak |-> IF a.given
                                   THEN [p \in Pixels(a.data) |->
                                           IF good[p] THEN a.patch_ids[p] ELSE -1]
                                   ELSE <<>>,
                           i |-> 0, ret |-> a.ret]
                /\ pc' = "ilc_patch"
                /\ UNCHANGED err
    \* line 730-731: the -1 are written into patch_ids.copy()
    /\ inputs' = IF call.fn = "ilc" /\ call.instr_nfreq = Cardinality(Freqs)
                          /\ IlcArgs.given
                 THEN [inputs EXCEPT !.patch_ids =
                         AfterWrite(@, CopyOf(@),
                                    [p \in DOMAIN @ |->
                                       IF IntersectMask(IlcArgs.data)[p]
                                       THEN -1 ELSE @[p]])]
                 ELSE inputs
    /\ UNCHANGED <<call, solver, harm, log>>

\* the patch selection with patch_ids_bak <= i in the place of == i
IdsOfUpTo(fr, i) ==
    IF fr.given THEN {p \in Pixels(fr.data) : fr.bak[p] >= 0 /\ fr.bak[p] <= i}
    ELSE {p \in Pixels(fr.data) : fr.good[p]}

\* ids_i: np.where(patch_ids_bak == i), or the mask itself for the single
\* global patch
IdsOf(fr, i) ==
    IF fr.given THEN {p \in Pixels(fr.data) : fr.bak[p] = i}
    ELSE {p \in Pixels(fr.data) : fr.good[p]}

\* line 698, "if not np.any(ids_i): return".  For the global patch ids_i is
\* the boolean mask; with patch_ids it is the tuple of index arrays that
\* np.where returns, and np.any looks at the indices themselves.
SkipPatch(fr, i) ==
    IF fr.given THEN ~(\E p \in IdsOf(fr, i) : p # 0)
    ELSE ~(\E p \in Pixels(fr.data) : fr.good[p])

IlcPatchSkip ==
    /\ pc = "ilc_patch"
    /\ ilc.i < ilc.n_id
    /\ SkipPatch(ilc, ilc.i)
    /\ ilc' = [ilc EXCEPT !.i = @ + 1]
    /\ UNCHANGED <<call, inputs, pc, err, mask, solver, res, harm, log>>

\* lines 718-720: res after a successful inversion for patch i
PatchResult(fr, i, r) ==
    LET P == IdsOf(fr, i)
        cov == NpCov(fr.data, P)
        W == AlgW(MixingA, InvFreqCov(cov))
    IN  [r EXCEPT !.freq_cov[i] = cov,
                  !.W[i] = W,
                  !.s = [c \in Comps |-> [k \in {0} |-> [p \in Pixels(fr.data) |->
                           IF p \in P THEN AlgMv(W, fr.data, p)[c]
                           ELSE r.s[c][k][p]]]]]

\* np.linalg.inv raises LinAlgError: certainly when the channels are the
\* same, possibly when the matrix is singular for another reason
MayRaise(fr, i) == Singular(Correlation(NpCov(fr.data, IdsOf(fr, i))))
MustRaise(fr, i) == MayRaise(fr, i) /\ Identical(fr.data, IdsOf(fr, i))

IlcPatchAssign ==
    /\ pc = "ilc_patch"
    /\ ilc.i < ilc.n_id
    /\ ~SkipPatch(ilc, ilc.i)
    /\ ~MustRaise(ilc, ilc.i)
    /\ res' = PatchResult(ilc, ilc.i, res)
    /\ ilc' = [ilc EXCEPT !.i = @ + 1]
    /\ UNCHANGED <<call, inputs, pc, err, mask, solver, harm, log>>

\* The message of lines 712-716 as the source spells it: literal text with
\* three replacement fields.
LogTemplate ==
    << [hole |-> FALSE, name |-> "",
        text |-> "Empirical covariance matrix cannot be reliably inverted.\nThe domain that failed is "],
       [hole |-> TRUE, name |-> "i_patch", text |-> "{i_patch}"],
       [hole |-> FALSE, name |-> "", text |-> ".\nCovariance matrix diagonal "],
       [hole |-> TRUE, name |-> "np.diag(cov)", text |-> "{np.diag(cov)}"],
       [hole |-> FALSE, name |-> "", text |-> "\nCorrelation matrix\n"],
       [hole |-> TRUE, name |-> "correlation", text |-> "{correlation}"] >>

\* a formatted string literal (f"..."): every field is replaced by the value
\* of its expression
FormattedLiteral(tpl, env) ==
    [k \in DOMAIN tpl |->
        IF tpl[k].hole
        THEN [kind |-> "value", text |-> tpl[k].name, value |-> env[tpl[k].name]]
        ELSE [kind |-> "text", text |-> tpl[k].text, value |-> <<>>]]

\* a plain string literal ("..."): the text stays as written, braces included
PlainLiteral(tpl, env) ==
    [k \in DOMAIN tpl |-> [kind |-> "text", text |-> tpl[k].text, value |-> <<>>]]

\* the message handed to logging.error at line 712; the literal there has no
\* f prefix
LogMessage(fr, i) ==
    LET cov == NpCov(fr.data, IdsOf(fr, i))
        env == [n \in {"i_patch", "np.diag(cov)", "correlation"} |->
                   CASE n = "i_patch"      -> i
                     [] n = "np.diag(cov)" -> Diag(cov)
                     [] OTHER              -> Correlation(cov)]
    IN  PlainLiteral(LogTemplate, env)

\* res if freq_cov were stored before the inversion is tried
ResAtRaiseStored(fr, i, r) ==
    [r EXCEPT !.freq_cov[i] = NpCov(fr.data, IdsOf(fr, i))]

\* res when np.linalg.inv raises (lines 708-717): nothing of the patch has
\* been stored, lines 718-720 are not reached
ResAtRaise(fr, i, r) == r

IlcPatchRaise ==
    /\ pc = "ilc_patch"
    /\ ilc.i < ilc.n_id
    /\ ~SkipPatch(ilc, ilc.i)
    /\ MayRaise(ilc, ilc.i)
    /\ log' = Append(log, LogMessage(ilc, ilc.i))
    /\ res' = ResAtRaise(ilc, ilc.i, res)
    /\ err' = "LinAlgError"
    /\ pc' = "raised"
    /\ UNCHANGED <<call, inputs, mask, solver, ilc, harm>>

\* lines 736-739: the loop is over, ilc() returns res, to its caller or to
\* _harmonic_ilc_alm
IlcReturn ==
    /\ pc = "ilc_patch"
    /\ ilc.i = ilc.n_id
    /\ IF ilc.ret = "ilc"
       THEN /\ res' = [res EXCEPT !.returned = TRUE]
            /\ pc' = "done"
       ELSE /\ res' = res
            /\ pc' = "h_craft"
    /\ UNCHANGED <<call, inputs, err, mask, solver, ilc, harm, log>>

(***************************************************************************)
(* Spherical harmonic transforms (healpy), lmax <= 2, on the 12 pixels of  *)
(* nside 1 in RING order: ring p \div 4, position p % 4 in the ring.  The  *)
(* harmonics are integer caricatures of the real ones: z for cos(theta),   *)
(* the signs of cos and sin of m*phi at the pixel centres.  Coefficients   *)
(* are pairs <<re, im>>.                                                   *)
(***************************************************************************)
Z(p) == 1 - (p \div 4)
CosPhi(p) == IF p \div 4 = 1 THEN <<1, 0, -1, 0>>[(p % 4) + 1]
         ELSE <<1, -1, -1, 1>>[(p % 4) + 1]
SinPhi(p) == IF p \div 4 = 1 THEN <<0, 1, 0, -1>>[(p % 4) + 1]
         ELSE <<1, 1, -1, -1>>[(p % 4) + 1]
Cos2Phi(p) == IF p \div 4 = 1 THEN <<1, -1, 1, -1>>[(p % 4) + 1] ELSE 0
Sin2Phi(p) == IF p \div 4 = 1 THEN 0 ELSE <<1, -1, 1, -1>>[(p % 4) + 1]

Ylm(l, m, p) ==
    CASE l = 0          -> <<1, 0>>
      [] l = 1 /\ m = 0 -> <<Z(p), 0>>
      [] l = 1 /\ m = 1 -> <<CosPhi(p), SinPhi(p)>>
      [] l = 2 /\ m = 0 -> <<3 * Z(p) * Z(p) - 1, 0>>
      [] l = 2 /\ m = 1 -> <<Z(p) * CosPhi(p), Z(p) * SinPhi(p)>>
      [] OTHER          -> <<Cos2Phi(p), Sin2Phi(p)>>

RECURSIVE LMFrom(_, _)
\* hp.Alm.getlm(lmax): the <<l, m>> of every coefficient, m-major
LMFrom(lmax, m) ==
    IF m > lmax THEN <<>>
    ELSE [i \in 1 .. (lmax - m + 1) |-> <<m + i - 1, m>>] \o LMFrom(lmax, m + 1)
getlm(lmax) == LMFrom(lmax, 0)

\* index set of the coefficients of an alm array
AlmIdx(lmax) == 0 .. (Len(getlm(lmax)) - 1)

\* hp.map2alm(m, lmax): the invalid pixels count as 0
map2alm(m, lmax) ==
    [i \in AlmIdx(lmax) |->
        LET lm == getlm(lmax)[i + 1]
            f(p) == IF m[p] = UNSEEN THEN 0 ELSE m[p]
        IN  << SumOver(Pix, [p \in Pix |-> f(p) * Ylm(lm[1], lm[2], p)[1]]),
               -SumOver(Pix, [p \in Pix |-> f(p) * Ylm(lm[1], lm[2], p)[2]]) >>]

\* hp.alm2map(alm, nside) of rational coefficients; the imaginary part of
\* the m = 0 coefficients plays no role
alm2map(alm, lmax) ==
    [p \in Pix |->
        RSumOver(AlmIdx(lmax), [i \in AlmIdx(lmax) |->
            LET lm == getlm(lmax)[i + 1]
                y == Ylm(lm[1], lm[2], p)
            IN  IF lm[2] = 0 THEN RMul(alm[i][1], RInt(y[1]))
                ELSE RMul(RInt(2), RAdd(RMul(alm[i][1], RInt(y[1])),
                                        RMul(alm[i][2], RInt(-y[2]))))])]

\* hp.alm2cl(alm) of rational coefficients
alm2cl(alm, lmax) ==
    [l \in 0 .. lmax |->
        RDiv(RSumOver(AlmIdx(lmax), [i \in AlmIdx(lmax) |->
                LET lm == getlm(lmax)[i + 1]
                    a2 == RAdd(RMul(alm[i][1], alm[i][1]), RMul(alm[i][2], alm[i][2]))
                IN  IF lm[1] # l THEN RInt(0)
                    ELSE IF lm[2] = 0 THEN a2 ELSE RMul(RInt(2), a2)]),
             RInt(2 * l + 1))]

\* integer coefficients as rational ones
RAlm(alm) == [i \in DOMAIN alm |-> <<RInt(alm[i][1]), RInt(alm[i][2])>>]

\* np.digitize(x, bins), bins increasing
digitize(x, bins) == Cardinality({i \in DOMAIN bins : bins[i] <= x})

(***************************************************************************)
(* harmonic_ilc                                                            *)
(***************************************************************************)
\* the argument lbins
LbinsOf(name) ==
    CASE name = "b01" -> <<0, 1>>
      [] name = "b02" -> <<0, 2>>
      [] name = "b13" -> <<1, 3>>
      [] OTHER        -> <<>>

\* the argument weights
WeightsOf(c) ==
    CASE c.weights = "ones"  -> [p \in Pix |-> 1]
      [] c.weights = "valid" -> [p \in Pix |-> IF p \in c.bad THEN 0 ELSE 1]
      [] c.weights = "apod"  -> [p \in Pix |-> IF p \in c.bad THEN 0
                                               ELSE IF p \div 4 = 1 THEN 1 ELSE 2]
      [] OTHER               -> <<>>

\* the fraction of unmasked pixels (the MASTER-style ratio with weights)
FskyUnmasked(c) ==
    IF c.weights # "None"
    THEN LET w == WeightsOf(c)
             m2 == SumOver(Pix, [p \in Pix |-> w[p] * w[p]])
             m4 == SumOver(Pix, [p \in Pix |-> w[p] * w[p] * w[p] * w[p]])
         IN  Rat(m2 * m2, Cardinality(Pix) * m4)
    ELSE LET m == IntersectMask(DataOf(c))
         IN  Rat(Cardinality({p \in Pix : ~m[p]}), Cardinality(Pix))

\* lines 537-543: fsky.  mask is what _intersect_mask returns
FskyOf(c) ==
    IF c.weights # "None"
    THEN LET w == WeightsOf(c)
             m2 == SumOver(Pix, [p \in Pix |-> w[p] * w[p]])
             m4 == SumOver(Pix, [p \in Pix |-> w[p] * w[p] * w[p] * w[p]])
         IN  Rat(m2 * m2, Cardinality(Pix) * m4)
    ELSE LET m == IntersectMask(DataOf(c))
         IN  Rat(Cardinality({p \in Pix : m[p]}), Cardinality(Pix))

\* _get_alms with beams = None: one map2alm per frequency, of the map or of
\* hp.ma(map) * weights
GetAlms(c, lmax) ==
    LET d == ma_to_array(DataOf(c))
        w == WeightsOf(c)
        fmap(f) == [p \in Pix |->
                      IF c.weights = "None" \/ d.v[<<f, 0>>][p] = UNSEEN
                      THEN d.v[<<f, 0>>][p]
                      ELSE d.v[<<f, 0>>][p] * w[p]]
    IN  [f \in Freqs |-> map2alm(fmap(f), lmax)]

\* the exception harmonic_ilc leaves with before it calls
\* _harmonic_ilc_alm, "none" if there is none
HarmonicError(c) ==
    IF c.lbins = "None" THEN "AttributeError"       \* line 535: None.max()
    ELSE IF /\ c.weights # "None"
            /\ \E p \in Pix : IntersectMask(DataOf(c))[p] /\ WeightsOf(c)[p] # 0
         THEN "AssertionError"                      \* line 538
    ELSE IF c.beams = "nonzero"
         THEN "AttributeError"                      \* line 584: [bl].T
    ELSE "none"

\* alms.view(np.float64) with the imaginary part of the m = 0 coefficients
\* set to UNSEEN (line 603): element 2i is the real part of coefficient i,
\* element 2i+1 its imaginary part
RealView(alms, lmax) ==
    [ma |-> FALSE, n |-> 2 * Len(getlm(lmax)),
     v  |-> [l \in Lead(1) |-> [q \in 0 .. (2 * Len(getlm(lmax)) - 1) |->
                IF q % 2 = 1 /\ q < 2 * (lmax + 1) THEN UNSEEN
                ELSE alms[l[1]][q \div 2][(q % 2) + 1]]],
     m  |-> [l \in Lead(1) |-> [q \in 0 .. (2 * Len(getlm(lmax)) - 1) |-> FALSE]]]

\* lines 532-553 and 590-612: harmonic_ilc up to the call of ilc() in
\* _harmonic_ilc_alm
HarmonicEnter ==
    /\ pc = "start"
    /\ call.fn = "harmonic_ilc"
    /\ LET e == HarmonicError(call)
           lbins == LbinsOf(call.lbins)
           lmax == Min(3 * DataNside - 1, lbins[Len(lbins)])
           alms == GetAlms(call, lmax)
           view == RealView(alms, lmax)
       IN  IF e # "none"
           THEN /\ err' = e
                /\ pc' = "raised"
                /\ UNCHANGED <<mask, harm>>
           ELSE /\ mask' = IF call.weights = "None"
                           THEN IntersectMask(DataOf(call)) ELSE mask
                /\ harm' = [active |-> TRUE, lmax |-> lmax, lbins |-> lbins,
                            fsky |-> FskyOf(call),
                            cl_in |-> [f \in Freqs |-> alm2cl(RAlm(alms[f]), lmax)],
                            \* the view shares its memory with alms: line 603
                            \* writes into the alms of harmonic_ilc too
                            alms |-> [f \in Freqs |-> [i \in AlmIdx(lmax) |->
                                        <<view.v[<<f, 0>>][2 * i],
                                          view.v[<<f, 0>>][2 * i + 1]>>]],
                            alms_real |-> view,
                            ell |-> [q \in 0 .. (view.n - 1) |->
                                       digitize(getlm(lmax)[q \div 2 + 1][1], lbins)]]
                /\ pc' = "h_ilc"
                /\ UNCHANGED err
    /\ UNCHANGED <<call, inputs, solver, res, ilc, log>>

\* the maps of the ILC output coefficients s_alm
BackToRealOutput(h, s_alm) ==
    [c \in Comps |-> [k \in {0} |-> alm2map(s_alm[c], h.lmax)]]

\* lines 559-561: res.s[c] = hp.alm2map(alms[c], nside)
BackToReal(h, s_alm) ==
    [c \in Comps |-> [k \in {0} |-> alm2map(RAlm(h.alms[c]), h.lmax)]]

\* lines 614-636 and 558-563: the output of ilc() crafted by
\* _harmonic_ilc_alm, then the maps made by harmonic_ilc
HarmonicReturn ==
    /\ pc = "h_craft"
    /\ LET h == harm
           n == Cardinality(AlmIdx(h.lmax))
           zeroed(x) == IF x = Sentinel THEN RInt(0) ELSE x
           s_alm == [c \in Comps |-> [i \in AlmIdx(h.lmax) |->
                        <<zeroed(res.s[c][0][2 * i]), zeroed(res.s[c][0][2 * i + 1])>>]]
           cl_out == [c \in Comps |-> alm2cl(s_alm[c], h.lmax)]
           corr(cl) == IF h.fsky # RInt(0)
                       THEN [x \in DOMAIN cl |-> [l \in 0 .. h.lmax |->
                               RDiv(cl[x][l], h.fsky)]]
                       ELSE cl
           ld == [l \in 0 .. h.lmax |-> digitize(l, h.lbins)]
           bins == 0 .. SetMax({ld[l] : l \in 0 .. h.lmax})
           bincount(w) == [b \in bins |->
                              SumOver({l \in 0 .. h.lmax : ld[l] = b},
                                      [l \in 0 .. h.lmax |-> w[l]])]
           num == bincount([l \in 0 .. h.lmax |-> l * 2 * l + 1])
           den == bincount([l \in 0 .. h.lmax |-> 2 * l + 1])
       IN  /\ res' = [returned |-> TRUE,
                      s |-> BackToReal(h, s_alm),
                      s_alm |-> s_alm,
                      W |-> res.W,
                      freq_cov |-> [i \in DOMAIN res.freq_cov |->
                                      [f \in Freqs |-> [g \in Freqs |->
                                         RMul(RInt(2), res.freq_cov[i][f][g])]]],
                      cl_in |-> corr(h.cl_in),
                      cl_out |-> corr(cl_out),
                      fsky |-> h.fsky,
                      l_ref |-> [b \in bins |-> Rat(num[b], den[b])]]
    /\ pc' = "done"
    /\ UNCHANGED <<call, inputs, err, mask, solver, ilc, harm, log>>

(***************************************************************************)
(* _force_keys_as_attributes and _LowerCaseAttrDict.  A key is             *)
(* <<name, case>>, name written in lower case and case telling how the     *)
(* caller spelled it; an instrument is [kind, items], kind "dict",         *)
(* "attrdict" (a _LowerCaseAttrDict) or "object" (attributes only).        *)
(***************************************************************************)
KeyNames == {"frequencies", "sens_i"}
KeyCases == {"lower", "Capital", "UPPER"}

\* str.lower()
Lower(key) == <<key[1], "lower">>

\* the instrument argument: every item holds the key it was given under
InstrumentOf(c) == [kind |-> c.ikind, items |-> [k \in c.keys |-> k]]

\* obj[key]
GetItem(obj, key) ==
    IF obj.kind # "object" /\ key \in DOMAIN obj.items
    THEN [exc |-> "none", value |-> obj.items[key]]
    ELSE [exc |-> "KeyError", value |-> <<>>]

\* obj.key: the instance dictionary first (self.__dict__ = self), then
\* _LowerCaseAttrDict.__getattr__
GetAttr(obj, key) ==
    IF obj.kind \in {"attrdict", "object"} /\ key \in DOMAIN obj.items
    THEN [exc |-> "none", value |-> obj.items[key]]
    ELSE IF obj.kind = "attrdict" /\ GetItem(obj, Lower(key)).exc = "none"
    THEN GetItem(obj, Lower(key))
    ELSE [exc |-> "AttributeError", value |-> <<>>]

\* hasattr(instrument, 'Frequencies')
HasFrequencies(obj) == GetAttr(obj, <<"frequencies", "Capital">>).exc = "none"

\* the items _LowerCaseAttrDict.__init__ ends with when its loop runs to
\* the end: every key lower-cased, the item of a re-keyed entry replacing
\* the one already under the lower-case key
LowerCased(items) ==
    [k \in {Lower(x) : x \in DOMAIN items} |->
        IF \E x \in DOMAIN items : x # k /\ Lower(x) = k
        THEN items[CHOOSE x \in DOMAIN items : x # k /\ Lower(x) = k]
        ELSE items[k]]

\* The loop of lines 868-873 adds and deletes keys of the dictionary it
\* iterates on, which Python leaves undefined ("may raise a RuntimeError
\* or fail to iterate over all entries"): CPython 3.8 and later raise
\* RuntimeError as soon as one key is re-keyed, Python 2 (items() is a
\* list) runs the loop to the end.
InitOutcomes(items) ==
    {[exc |-> "none", obj |-> [kind |-> "attrdict", items |-> LowerCased(items)]]}
    \cup
    (IF \E k \in DOMAIN items : Lower(k) # k
     THEN {[exc |-> "RuntimeError", obj |-> <<>>]}
     ELSE {})

\* _force_keys_as_attributes(instrument): the set of its outcomes
ForceKeysOutcomes(obj) ==
    IF HasFrequencies(obj) THEN {[exc |-> "none", obj |-> obj]}
    ELSE InitOutcomes(obj.items)

ForceKeys ==
    /\ pc = "start"
    /\ call.fn = "_force_keys_as_attributes"
    /\ \E o \in ForceKeysOutcomes(InstrumentOf(call)) :
          IF o.exc = "none"
          THEN /\ res' = [returned |-> TRUE, obj |-> o.obj]
               /\ pc' = "normalized"
               /\ UNCHANGED err
          ELSE /\ err' = o.exc
               /\ pc' = "raised"
               /\ UNCHANGED res
    \* line 867: dict.__init__ fills the new dictionary from the mapping, and
    \* the loop re-keys the new dictionary
    /\ inputs' = IF HasFrequencies(InstrumentOf(call)) THEN inputs
                 ELSE [inputs EXCEPT !.instrument =
                         AfterWrite(@, CopyOf(@), LowerCased(@))]
    /\ UNCHANGED <<call, mask, solver, ilc, harm, log>>

\* the function applied to its own result
ForceKeysAgain ==
    /\ pc = "normalized"
    /\ \E o \in ForceKeysOutcomes(res.obj) :
          IF o.exc = "none"
          THEN /\ res' = [returned |-> TRUE, obj |-> o.obj, first |-> res.obj]
               /\ pc' = "done"
               /\ UNCHANGED err
          ELSE /\ err' = o.exc
               /\ pc' = "raised"
               /\ UNCHANGED res
    /\ UNCHANGED <<call, inputs, mask, solver, ilc, harm, log>>

(***************************************************************************)
(* The calls the model runs                                                *)
(***************************************************************************)
\* the leading elements that carry the invalid value of a bad pixel
Triggers(ns) == {AllLead, <<0, 0>>, <<1, ns - 1>>}

SensChoices == SUBSET {"sens_i", "sens_p"}

\* Every entry point is run on two families of calls: one that varies the
\* invalid pixels (any set of at most MaxBad pixels, each representation and
\* trigger) and one that varies the configuration (shape, instrument,
\* resolutions, free parameters) on a map with at most one invalid pixel.
FewBad == {{}, {0}, {5}}

\* the representation of the data and the trigger of its invalid pixels
MaskKinds(ns) ==
    {<<FALSE, AllLead>>, <<FALSE, <<0, 0>> >>, <<TRUE, <<1, ns - 1>> >>}

MaskCalls(fn) ==
    UNION {{[BaseCall EXCEPT !.fn = fn, !.ndim = sh[1], !.ns = sh[2],
                !.ma = mk[1], !.bad = B, !.trig = mk[2], !.n_param = 1,
                !.nsides = <<1>>,
                !.instr = {"frequencies", "sens_i", "sens_p"}]
             : mk \in MaskKinds(sh[2]), B \in BadSets}
           : sh \in {<<2, 1>>, <<3, 3>>}}

\* the sets of invalid pixels of the maps of nside 2: none, some pixels of
\* the nside 1 pixels 0 and 4, all of pixel 0 (4, 5, 13 and the pixel 0 of
\* the map), all of pixels 0 and 11, the whole map
HiBadSets ==
    {{}, {0}, {4, 5, 13}, {0, 4, 5, 13}, {0, 4, 5, 13, 12, 47},
     {0, 4, 5, 13, 35, 42, 43, 47}, 0 .. 47}

\* fits at a resolution lower than the one of the data
HiCalls(fn) ==
    {[BaseCall EXCEPT !.fn = fn, !.dnside = HiNside, !.pat = "flat",
         !.ma = mk[1], !.trig = mk[2], !.bad = B,
         !.nside = ns[1], !.nsides = ns[2], !.n_param = Len(ns[2]),
         !.instr = {"frequencies", "sens_i"}]
       : mk \in MaskKinds(1), B \in HiBadSets,
         ns \in {<<1, <<1>> >>, <<1, <<0, 1>> >>, <<2, <<2, 1>> >>,
                 <<1, <<1, 0, 2>> >>}}

BasicCalls ==
    MaskCalls("basic_comp_sep") \cup HiCalls("basic_comp_sep") \cup
    {[BaseCall EXCEPT !.fn = "basic_comp_sep", !.ndim = sh[1], !.ns = sh[2],
         !.bad = B, !.nside = nside, !.n_param = np,
         !.instr = {"frequencies"} \cup sens]
       : sh \in Shapes, B \in FewBad, nside \in {0, 1}, np \in {0, 1},
         sens \in SensChoices}

HiWeightedCalls ==
    {[BaseCall EXCEPT !.fn = "weighted_comp_sep", !.dnside = HiNside,
         !.pat = "flat", !.ma = mk[1], !.trig = mk[2], !.bad = B,
         !.nside = nside, !.n_param = np]
       : mk \in MaskKinds(1), B \in HiBadSets, nside \in {1, 2}, np \in {1, 2}}

\* cov has the shape of data or is pixel independent; a MaskedArray cov has
\* the shape of data
WeightedCalls ==
    UNION {{[BaseCall EXCEPT !.fn = "weighted_comp_sep", !.ndim = sh[1],
                !.ns = sh[2], !.ma = ma, !.bad = B, !.trig = t,
                !.cov_ma = cv[1], !.cov_pix1 = cv[2], !.cov_bad = CB,
                !.cov_trig = <<1, sh[2] - 1>>, !.n_param = 1]
             : ma \in BOOLEAN, t \in {AllLead, <<0, 0>>},
               B \in {X \in BadSets : Cardinality(X) + Cardinality(CB) <= MaxBad},
               cv \in {<<FALSE, FALSE>>, <<TRUE, FALSE>>}}
           : sh \in {<<3, 2>>}, CB \in {{}, {0}, {7}}}
    \cup
    HiWeightedCalls \cup
    {[BaseCall EXCEPT !.fn = "weighted_comp_sep", !.bad = B,
         !.cov_pix1 = TRUE, !.cov_bad = CB, !.cov_trig = <<0, 0>>,
         !.nside = nside, !.n_param = np]
       : B \in FewBad, CB \in {{}, {0}}, nside \in {0, 1}, np \in {0, 1}}

NsidesChoices == {<<>>, <<0>>, <<1>>, <<0, 0>>}

\* patch_ids given: one list of clusters per free parameter
ClusterCalls ==
    {[BaseCall EXCEPT !.fn = "multi_res_comp_sep", !.ma = mk[1],
         !.trig = mk[2], !.bad = B, !.patch = pl, !.nsides = nsides,
         !.n_param = Len(ClusterLayout(pl)),
         !.instr = {"frequencies", "sens_i"}]
       : mk \in MaskKinds(1),
         B \in {X \in BadSets : X \subseteq {0, 1, 5, 11}} \cup {0 .. 11},
         pl \in {"split", "uneven", "single", "overlap"},
         nsides \in {<<1>>, <<1, 1>>, <<0, 1>>}}

MultiResCalls ==
    MaskCalls("multi_res_comp_sep") \cup HiCalls("multi_res_comp_sep") \cup
    ClusterCalls \cup
    {[BaseCall EXCEPT !.fn = "multi_res_comp_sep", !.ndim = sh[1],
         !.ns = sh[2], !.bad = B, !.nsides = nsides, !.n_param = np,
         !.instr = {"frequencies"} \cup sens]
       : sh \in Shapes, B \in FewBad, nsides \in NsidesChoices,
         np \in {0, 1}, sens \in SensChoices}

PatchChoices == {"None", "rings", "halves", "first", "gap"}

\* ilc and harmonic_ilc take several steps per call: their invalid pixels
\* are drawn from the first ring, the equator and the last pixel
IlcBadSets == {B \in BadSets : B \subseteq {0, 1, 2, 4, 5, 11}}

IlcCalls ==
    {[BaseCall EXCEPT !.fn = "ilc", !.ma = mk[1], !.trig = mk[2], !.bad = B,
         !.patch = pl]
       : mk \in MaskKinds(1), B \in IlcBadSets, pl \in {"None", "rings", "first"}}
    \cup
    {[BaseCall EXCEPT !.fn = "ilc", !.bad = B, !.patch = pl, !.pat = pat,
         !.instr_nfreq = nf]
       : B \in FewBad, pl \in PatchChoices, pat \in {"identical", "flat", "late"},
         nf \in {2, 3}}

HarmonicCalls ==
    {[BaseCall EXCEPT !.fn = "harmonic_ilc", !.ma = mk[1], !.trig = mk[2],
         !.bad = B, !.lbins = lb, !.pat = "sparse"]
       : mk \in MaskKinds(1), B \in IlcBadSets, lb \in {"b02", "b13"}}
    \cup
    {[BaseCall EXCEPT !.fn = "harmonic_ilc", !.bad = B, !.lbins = lb,
         !.weights = w, !.beams = bm, !.pat = pat,
         !.instr = IF bm = "absent" THEN {"frequencies"}
                   ELSE {"frequencies", "beams"}]
       : B \in FewBad, lb \in {"None", "b01", "b02", "b13"},
         w \in {"None", "ones", "valid", "apod"},
         bm \in {"absent", "zero", "nonzero"}, pat \in {"sparse", "identical"}}

\* a dictionary with any spelling of the keys, an object with attributes
ForceKeysCalls ==
    {[BaseCall EXCEPT !.fn = "_force_keys_as_attributes", !.keys = K]
       : K \in SUBSET (KeyNames \X KeyCases)}
    \cup
    {[BaseCall EXCEPT !.fn = "_force_keys_as_attributes", !.ikind = "object",
         !.keys = {<<n, "Capital">> : n \in N}]
       : N \in {{"frequencies"}, KeyNames}}

Calls == BasicCalls \cup WeightedCalls \cup MultiResCalls \cup IlcCalls
         \cup HarmonicCalls \cup ForceKeysCalls

NoHarm == [active |-> FALSE]

\* what the caller passed: the arrays and the mapping of the call
InputsOf(c) ==
    [data       |-> DataOf(c),
     cov        |-> CovOf(c),
     patch_ids  |-> IF c.fn = "multi_res_comp_sep" THEN ClusterLayout(c.patch)
                    ELSE PatchLayout(c.patch),
     weights    |-> WeightsOf(c),
     instrument |-> InstrumentOf(c).items]

Init ==
    /\ call \in Calls
    /\ inputs = InputsOf(call)
    /\ pc = "start"
    /\ err = "none"
    /\ mask = <<>>
    /\ solver = NoSolver
    /\ res = NoRes
    /\ ilc = NoIlc
    /\ harm = NoHarm
    /\ log = <<>>

Next ==
    \/ BasicCompSep
    \/ WeightedCompSep
    \/ MultiResCompSep
    \/ IlcEnter
    \/ IlcPatchSkip
    \/ IlcPatchAssign
    \/ IlcPatchRaise
    \/ IlcReturn
    \/ HarmonicEnter
    \/ HarmonicReturn
    \/ ForceKeys
    \/ ForceKeysAgain

Spec == Init /\ [][Next]_vars

(***************************************************************************)
(* Properties                                                              *)
(***************************************************************************)
\* element l of pixel p of an array is invalid: flagged in a MaskedArray,
\* equal to the sentinel in a plain one
ElementInvalid(a, l, p) == IF a.ma THEN a.m[l][p] ELSE a.v[l][p] = UNSEEN

\* at least one leading element of pixel p is invalid
PixelInvalid(a, p) == \E l \in DOMAIN a.v : ElementInvalid(a, l, p)

\* C1: the unified mask marks pixel p invalid iff at least one leading
\* (frequency / Stokes) element at p is invalid, for plain and for masked
\* arrays; the mask weighted_comp_sep separates with marks p invalid iff p
\* is invalid in data or in cov.  (mask holds the invalid pixels in
\* basic_comp_sep, multi_res_comp_sep and harmonic_ilc, the valid ones in
\* weighted_comp_sep and ilc.)
C1_MaskIffAnyInvalid ==
    /\ (call.fn \in {"basic_comp_sep", "multi_res_comp_sep"} /\ pc = "done")
          => \A p \in PixOf(call) : mask[p] <=> PixelInvalid(DataOf(call), p)
    /\ (call.fn = "harmonic_ilc" /\ pc = "h_ilc" /\ call.weights = "None")
          => \A p \in PixOf(call) : mask[p] <=> PixelInvalid(DataOf(call), p)
    /\ (call.fn = "ilc" /\ ilc.active)
          => \A p \in PixOf(call) : mask[p] <=> ~PixelInvalid(DataOf(call), p)
    /\ (call.fn = "weighted_comp_sep" /\ pc = "done")
          => \A p \in PixOf(call) : mask[p] <=> ~(\/ PixelInvalid(DataOf(call), p)
                                          \/ PixelInvalid(CovOf(call), p))

\* weighted_comp_sep has returned; one pixel is invalid in a single element
\* of cov only, another in a single element of data only
C1_Witness ==
    /\ call.fn = "weighted_comp_sep"
    /\ pc = "done"
    /\ \E p, q \in Pix :
          /\ ~mask[p] /\ ~mask[q]
          /\ ~PixelInvalid(DataOf(call), p)
          /\ \E l, n \in Lead(call.ns) : /\ ElementInvalid(CovOf(call), l, p)
                                         /\ ~ElementInvalid(CovOf(call), n, p)
          /\ ~PixelInvalid(CovOf(call), q)
          /\ \E l, n \in Lead(call.ns) : /\ ElementInvalid(DataOf(call), l, q)
                                         /\ ~ElementInvalid(DataOf(call), n, q)
    /\ \E p \in Pix : mask[p]

\* C2: for every entry point and every input mask, the returned amplitude
\* maps s hold the sentinel at every pixel that was invalid on input, for
\* every component and every Stokes index
C2_SentinelAtInvalid ==
    res.returned =>
        \A p \in Pix :
            (\/ PixelInvalid(DataOf(call), p)
             \/ call.fn = "weighted_comp_sep" /\ PixelInvalid(CovOf(call), p))
            => \A c \in DOMAIN res.s : \A k \in DOMAIN res.s[c] :
                   res.s[c][k][p] = Sentinel

\* the sensitivity fields the Stokes layout of the data asks for
SensNeeded(c) ==
    IF c.ndim < 3 \/ c.ns = 1 THEN {"sens_i"}
    ELSE IF c.ns = 2 THEN {"sens_p"}
    ELSE {"sens_i", "sens_p"}

\* a call of basic_comp_sep or multi_res_comp_sep, well formed but for the
\* instrument, which lacks a sensitivity field the data asks for
C3_Case ==
    /\ call.fn \in {"basic_comp_sep", "multi_res_comp_sep"}
    /\ ~(SensNeeded(call) \subseteq call.instr)
    /\ call.fn = "multi_res_comp_sep"
          => call.nsides # <<>> /\ call.n_param = Len(call.nsides)
    /\ pc # "start"

\* C3: an instrument that lacks the sensitivity field the Stokes layout of
\* the data requires causes no error in basic_comp_sep and
\* multi_res_comp_sep: prewhitening is disabled and the solver is called
C3_NoSensNoError ==
    C3_Case => err = "none" /\ solver.called /\ ~solver.prewhitened

\* spectra divided by the sky fraction f
Corrected(cl, f) ==
    [x \in DOMAIN cl |-> [l \in DOMAIN cl[x] |-> RDiv(cl[x][l], f)]]

\* C4: in harmonic_ilc without weights, cl_in and cl_out are the spectra
\* divided by fsky = (number of pixels valid in every frequency) / (number
\* of pixels); with a fully valid map the factor is 1
C4_FskyIsValidFraction ==
    (call.fn = "harmonic_ilc" /\ pc = "done" /\ call.weights = "None") =>
        /\ res.cl_in = Corrected(harm.cl_in, FskyUnmasked(call))
        /\ res.cl_out = Corrected([c \in Comps |-> alm2cl(res.s_alm[c], harm.lmax)],
                                  FskyUnmasked(call))

\* C5: in harmonic_ilc the returned map s[c] is the inverse transform of
\* the ILC output coefficients of component c, not of the input
\* coefficients of a frequency channel
C5_MapsOfIlcOutput ==
    (call.fn = "harmonic_ilc" /\ pc = "done") =>
        res.s = BackToRealOutput(harm, res.s_alm)

\* C6: a call of harmonic_ilc with lbins left at its default (None)
\* completes without error
C6_LbinsOptional ==
    (/\ call.fn = "harmonic_ilc" /\ call.lbins = "None"
     /\ call.weights = "None" /\ call.beams = "absent"
     /\ pc # "start")
    => err = "none"

\* the patch identifiers ilc() was given, one per row of data.T
PatchIdsGiven == IF ilc.ret = "ilc" THEN PatchLayout(call.patch) ELSE harm.ell

\* the valid pixels of patch i: all the valid pixels for the single global
\* patch
ValidOfPatch(i) ==
    {p \in Pixels(ilc.data) : /\ ~PixelInvalid(ilc.data, p)
                              /\ ilc.given => PatchIdsGiven[p] = i}

\* the entries of patch i are those ilc() computes from the pixels P
ComputedFrom(r, i, P) ==
    LET cov == NpCov(ilc.data, P)
        W == AlgW(MixingA, InvFreqCov(cov))
    IN  /\ r.freq_cov[i] = cov
        /\ r.W[i] = W
        /\ \A c \in Comps : \A p \in P : r.s[c][0][p] = AlgMv(W, ilc.data, p)[c]

\* the entries of patch i are at the sentinel
LeftAtSentinel(r, i, P) ==
    /\ r.freq_cov[i] = SentinelMatrix(Freqs, Freqs)
    /\ r.W[i] = SentinelMatrix(Comps, Freqs)
    /\ \A c \in Comps : \A p \in P : r.s[c][0][p] = Sentinel

\* C7: in ilc, the W, freq_cov and amplitudes of a patch are computed iff
\* the patch has at least one valid pixel, and stay at the sentinel
\* otherwise, whichever pixel indices the patch contains (a patch whose
\* only valid element has index 0 included)
C7_ComputedIffValidPixel ==
    (call.fn = "ilc" /\ pc = "done") =>
        \A i \in DOMAIN res.W :
            IF ValidOfPatch(i) # {}
            THEN ComputedFrom(res, i, ValidOfPatch(i))
            ELSE LeftAtSentinel(res, i, {})

\* the two channels are the same and vary on the pixels P: the correlation
\* matrix is exactly singular
RankDeficient(P) ==
    /\ Cardinality(P) >= 2
    /\ Identical(ilc.data, P)
    /\ \E p, q \in P : At(ilc.data, 0, p) # At(ilc.data, 0, q)

C9_MessageHasValues ==
    (ilc.active /\ pc = "raised" /\ err = "LinAlgError") =>
        /\ log # <<>>
        /\ LET msg == log[Len(log)]
               cov == NpCov(ilc.data, ValidOfPatch(ilc.i))
               has(name, v) == \E k \in DOMAIN msg : /\ msg[k].kind = "value"
                                                     /\ msg[k].text = name
                                                     /\ msg[k].value = v
           IN  /\ has("i_patch", ilc.i)
               /\ has("np.diag(cov)", Diag(cov))
               /\ has("correlation", Correlation(cov))

\* a step of the patch loop of ilc called with patch_ids
PatchStep ==
    /\ pc = "ilc_patch" /\ ilc.given /\ ilc.i < ilc.n_id
    /\ pc' = "ilc_patch" /\ ilc'.i = ilc.i + 1

\* C10: in ilc with patch_ids the output is keyed by patch identifier:
\* processing patch i leaves W[j], freq_cov[j] and the s entries of every
\* other patch j unchanged, and what it writes for patch i is computed
\* from the valid pixels whose patch id is i only
C10_KeyedByPatch ==
    [][PatchStep =>
         LET i == ilc.i
             P == ValidOfPatch(i)
         IN  /\ \A j \in DOMAIN res.W \ {i} :
                    res'.W[j] = res.W[j] /\ res'.freq_cov[j] = res.freq_cov[j]
             /\ \A c \in Comps : \A p \in Pixels(ilc.data) \ P :
                    res'.s[c][0][p] = res.s[c][0][p]
             /\ res' = res \/ ComputedFrom(res', i, P)]_vars

\* ilc has returned the weights of three patches, two of them different
C10_Witness ==
    /\ call.fn = "ilc" /\ pc = "done" /\ ilc.given /\ ilc.n_id = 3
    /\ call.bad # {}
    /\ \A i \in DOMAIN res.W : res.W[i] # SentinelMatrix(Comps, Freqs)
    /\ \E i, j \in DOMAIN res.W : res.W[i] # res.W[j]

\* a well-formed call of a fit entry point on a component model without
\* free parameters
C11_Case ==
    /\ call.fn \in {"basic_comp_sep", "weighted_comp_sep", "multi_res_comp_sep"}
    /\ call.n_param = 0
    /\ call.fn = "multi_res_comp_sep" => Len(call.nsides) = call.n_param
    /\ pc # "start"

\* C11: with zero free parameters basic_comp_sep, weighted_comp_sep and
\* multi_res_comp_sep succeed without a fit: the evaluator is called once
\* without arguments, the solver gets the matrix and no parameter map
\* (x, Sigma) is reshaped or masked
C11_ZeroParamsNoFit ==
    C11_Case => /\ err = "none"
                /\ solver.called
                /\ solver.A_ev = "matrix" /\ solver.ev_calls = 1
                /\ ~res.x_crafted

\* C12: multi_res_comp_sep raises, before the solver is called, for every
\* call whose nsides has not as many entries as the model has free
\* parameters, whatever the values in nsides
C12_NsidesMismatchIsFatal ==
    (/\ call.fn = "multi_res_comp_sep"
     /\ Len(call.nsides) # call.n_param
     /\ pc # "start")
    => pc = "raised" /\ ~solver.called

\* every spelling of the name of a key
Spellings(key) == {<<key[1], c>> : c \in KeyCases}

\* C13: for a mapping with string keys of any letter case,
\* _force_keys_as_attributes returns an object that stores every key
\* lower-cased, gives every field by lookup with the lower-case key and by
\* attribute access with any letter case, raises a missing-attribute error
\* for an absent field, and is left as it is by a second application
C13_KeysNormalized ==
    (call.fn = "_force_keys_as_attributes" /\ call.ikind = "dict" /\ pc # "start")
    => /\ err = "none"
       /\ \A k \in DOMAIN res.obj.items : Lower(k) = k
       /\ \A k \in call.keys :
             /\ GetItem(res.obj, Lower(k)).exc = "none"
             /\ \A a \in Spellings(k) :
                   GetAttr(res.obj, a) = GetItem(res.obj, Lower(k))
       /\ \A n \in KeyNames :
             (\A k \in call.keys : k[1] # n)
                 => \A c \in KeyCases : GetAttr(res.obj, <<n, c>>).exc = "AttributeError"
       /\ pc = "done" => res.obj = res.first

\* the public entry points
EntryPoints ==
    {"basic_comp_sep", "weighted_comp_sep", "multi_res_comp_sep",
     "ilc", "harmonic_ilc"}

\* C14: no public entry point modifies what the caller passed: during and
\* after the call data, cov, patch_ids, weights and the instrument mapping
\* hold the values they were passed with, also at the masked pixels the
\* entry point zeroes or re-labels in its working arrays.
C14_InputsUntouched ==
    call.fn \in EntryPoints \cup {"_force_keys_as_attributes"}
        => inputs = InputsOf(call)

\* a call on a plain array with masked pixels has returned, and the
\* caller's data still hold the invalid values that made the mask
C14_Witness ==
    /\ pc = "done"
    /\ call.fn \in {"basic_comp_sep", "multi_res_comp_sep"}
    /\ ~call.ma
    /\ \E p \in call.bad :
          /\ mask[p]
          /\ PixelInvalid(inputs.data, p)

\* the clusters of a parameter are pairwise disjoint
Disjoint(cl) ==
    \A c, d \in 1 .. Len(cl) : c # d => cl[c] \cap cl[d] = {}

\* the number of clusters of the first b parameters
ClustersBefore(K, b) ==
    Cardinality({jc \in (1 .. b) \X (1 .. 12) : jc[2] <= Len(K[jc[1]])})

\* multi_res_comp_sep returned from a call with patch_ids, max(nsides) > 0
\* and disjoint clusters
C15_Case ==
    /\ pc = "done"
    /\ call.fn = "multi_res_comp_sep"
    /\ call.patch # "None"
    /\ SeqMax(call.nsides) > 0
    /\ \A b \in 1 .. Len(ClusterLayout(call.patch)) :
          Disjoint(ClusterLayout(call.patch)[b])

\* C15: in explicit-patch mode res.x holds one full-resolution map per
\* free parameter b, and at every pixel p of cluster c of b the map holds
\* the solver's value at flat index (number of clusters of the parameters
\* before b) + c when p is valid and the sentinel when p is invalid.
C15_ReportInvertsUnpack ==
    C15_Case =>
        LET K == ClusterLayout(call.patch)
        IN  /\ DOMAIN res.x = 0 .. (Len(K) - 1)
            /\ \A b \in 0 .. (Len(K) - 1) :
                  /\ DOMAIN res.x[b] = PixOf(call)
                  /\ \A c \in 1 .. Len(K[b + 1]) : \A p \in K[b + 1][c] :
                        res.x[b][p] =
                            IF PixelInvalid(DataOf(call), p) THEN Sentinel
                            ELSE SolverX(ClustersBefore(K, b) + c - 1)

\* a call with two parameters returned: a valid pixel of the second cluster
\* of the first parameter and one of a cluster of the second parameter hold
\* different solver values, and an invalid pixel holds the sentinel
C15_Witness ==
    /\ C15_Case
    /\ call.patch = "uneven"
    /\ \E p, q, r \in PixOf(call) :
          /\ p \in ClusterLayout(call.patch)[1][2]
          /\ res.x[0][p] = SolverX(1)
          /\ q \in ClusterLayout(call.patch)[2][1]
          /\ res.x[1][q] = SolverX(3)
          /\ PixelInvalid(DataOf(call), r)
          /\ res.x[0][r] = Sentinel

\* weighted_comp_sep returned parameter maps
C16_Case ==
    /\ pc = "done"
    /\ call.fn = "weighted_comp_sep"
    /\ call.nside > 0
    /\ call.n_param > 0

\* the valid pixels of patch P of the parameter maps
ValidIn(P) ==
    {q \in Children(call.dnside, call.nside, P) : mask[q]}

\* C16: in weighted_comp_sep with nside > 0, whatever pixels are masked,
\* x and Sigma have nside2npix(nside) entries along the pixel axis, and
\* entry P holds the fit of patch P when patch P has a valid pixel and the
\* sentinel otherwise, the solver returning one fit per distinct patch
\* identifier stacked in the order of the identifiers.
C16_EntryIsFitOfPatch ==
    C16_Case =>
        LET Params == 0 .. (call.n_param - 1)
            Patches == 0 .. (nside2npix(call.nside) - 1)
        IN  /\ \A b \in Params :
                  /\ DOMAIN res.x[b] = Patches
                  /\ \A P \in Patches :
                        res.x[b][P] = IF ValidIn(P) # {} THEN PatchX(P, b)
                                      ELSE Sentinel
            /\ \A ij \in Params \X Params :
                  /\ DOMAIN res.Sigma[ij] = Patches
                  /\ \A P \in Patches :
                        res.Sigma[ij][P] =
                            IF ValidIn(P) # {} THEN PatchSigma(P, ij[1], ij[2])
                            ELSE Sentinel

\* every data pixel contained in pixel P of a parameter map of resolution
\* nside is invalid (resolution 0: every pixel of the map)
AllInvalid(nside, P) ==
    \A q \in Children(call.dnside, nside, P) : PixelInvalid(DataOf(call), q)

\* basic_comp_sep with nside > 0, or multi_res_comp_sep without patch_ids,
\* returned fitted parameters
C17_Case ==
    /\ pc = "done"
    /\ call.n_param > 0
    /\ \/ call.fn = "basic_comp_sep" /\ call.nside > 0
       \/ call.fn = "multi_res_comp_sep" /\ call.patch = "None"

\* C17: in basic_comp_sep with nside > 0 and in multi_res_comp_sep in
\* uniform-resolution mode a pixel of a parameter map (and of Sigma in
\* basic_comp_sep) holds the sentinel iff every data pixel it contains is
\* invalid, and the solver's fitted value otherwise; the value of a
\* resolution-0 parameter is the sentinel only when the whole map is
\* invalid.
C17_SentinelIffAllInvalid ==
    C17_Case =>
        LET Params == 0 .. (call.n_param - 1)
        IN  IF call.fn = "basic_comp_sep"
            THEN \A P \in 0 .. (nside2npix(call.nside) - 1) :
                   /\ \A b \in Params :
                         res.x[b][P] = IF AllInvalid(call.nside, P)
                                       THEN Sentinel ELSE PatchX(P, b)
                   /\ \A i, j \in Params :
                         res.Sigma[j][i][P] =
                             IF AllInvalid(call.nside, P)
                             THEN Sentinel ELSE PatchSigma(P, i, j)
            ELSE IF SeqMax(call.nsides) = 0
            THEN \A b \in Params :
                   res.x[b] = Sentinel => AllInvalid(0, 0)
            ELSE \A b \in Params :
                   \A P \in 0 .. (my_nside2npix(call.nsides[b + 1]) - 1) :
                      res.x[b][P] =
                          IF AllInvalid(call.nsides[b + 1], P) THEN Sentinel
                          ELSE SolverX(NsideOffset(call.nsides, b) + P)

\* multi_res_comp_sep returned from a call on a map of nside 2 with a
\* parameter of resolution 0 and one of resolution 1: some pixels are
\* invalid, the resolution-0 value is the fitted one, the first nside 1
\* pixel holds the sentinel because its four pixels are invalid, and the
\* fifth, which has one invalid pixel, holds the fitted value
C17_Witness ==
    /\ C17_Case
    /\ call.fn = "multi_res_comp_sep"
    /\ call.dnside = HiNside
    /\ call.nsides = <<0, 1>>
    /\ ~AllInvalid(0, 0)
    /\ res.x[0][0] = SolverX(0)
    /\ AllInvalid(1, 0)
    /\ res.x[1][0] = Sentinel
    /\ \E q \in Children(HiNside, 1, 4) : PixelInvalid(DataOf(call), q)
    /\ res.x[1][4] = SolverX(5)

====
